---- MODULE Spec2Model ----
(***************************************************************************)
(* InfoFlow4Venture: a news pipeline.  Three programs share one document   *)
(* store and one scheduler configuration file:                             *)
(*   - ListPageExtractor.py  : listing extraction + detail backfill        *)
(*   - EmailService.py       : digest selection, translation, delivery     *)
(*   - scheduler.py          : command line, daemon, job registration      *)
(* Each program is a specification of its own (Spec, SpecEmail,            *)
(* SpecSched) over the same variables; a specification leaves the other    *)
(* programs' variables alone.                                              *)
(*                                                                         *)
(* Python values are modelled by tagged records (PyNone, PyStr, PyList,    *)
(* PyInt); a text is the sequence of its characters, so that str.split is  *)
(* computed and not assumed.                                               *)
(***************************************************************************)
EXTENDS Integers, Sequences, FiniteSets, TLC

VARIABLES
    \* ---- the document store (collection `news`), shared
    store,
    \* ---- ListPageExtractor.py (one process: the __main__ block)
    listing,      \* what the crawl of the source URL yields (unchanged source)
    pc,           \* position of the process
    news_data,    \* all_processed_news, the list handed to extract_detailPage
    idx,          \* index of the for loop of extract_detailPage
    runs,         \* completed extract_news_list calls
    now,          \* the clock (_get_current_time_utc8)
    last,         \* what the latest iteration of extract_detailPage did
    xcall,        \* the latest extract_detail_content call and its result
    \* ---- EmailService.py
    env,          \* environment variables that are set
    recipients,   \* the recipient list of the service
    epc,          \* position of process_and_send_news
    digest,       \* news_data of process_and_send_news
    tieOrder,     \* the store's order among equal sort keys
    sendIdx,      \* index of the for loop of send_email
    success_count,
    failed_recipients,
    attempted,    \* recipients for which send_single_email was entered
    single,       \* the running send_single_email call
    sendResult,   \* how send_email ended
    opResult,     \* how process_and_send_news ended
    trace,        \* the steps of process_and_send_news that succeeded, and
                  \* the answer of the translation request
    \* ---- scheduler.py
    cfgFile,      \* logs/scheduler_config.json
    pidFile,      \* logs/scheduler.pid
    cli,          \* the TaskScheduler object of the latest command
    daemons,      \* forked children
    clock,        \* wall clock of the day
    lastFire,     \* the latest job a daemon ran at this time of the day
    sets          \* set_times calls made so far

ingestVars == <<listing, pc, news_data, idx, runs, now, last, xcall>>
emailVars == <<env, recipients, epc, digest, tieOrder, sendIdx, success_count,
               failed_recipients, attempted, single, sendResult, opResult,
               trace>>
schedVars == <<cfgFile, pidFile, cli, daemons, clock, lastFire, sets>>
vars == <<store, ingestVars, emailVars, schedVars>>

(***************************************************************************)
(* Bounds of the model.                                                    *)
(***************************************************************************)
MaxList == 2        \* stubs in one listing
MaxRuns == 2        \* runs of the ingestion script
MaxDocs == 12       \* documents in the store the digest reads
MaxRecipients == 2  \* recipients of a digest
MaxRetry == 3       \* retry_count of a send_single_email call
MaxSets == 2        \* set_times calls
MaxDaemons == 2     \* forks of the scheduler
MaxSpan == 1        \* times of the day a job's subprocess lasts through

(***************************************************************************)
(* Python values.                                                          *)
(***************************************************************************)
PyNone == [t |-> "none", s |-> <<>>, l |-> <<>>]
PyAbsent == [t |-> "absent", s |-> <<>>, l |-> <<>>]   \* key not in the dict
PyInt == [t |-> "int", s |-> <<>>, l |-> <<>>]         \* a non-zero number
PyStr(x) == [t |-> "str", s |-> x, l |-> <<>>]
PyList(q) == [t |-> "list", s |-> <<>>, l |-> q]

\* bool(v)
Truthy(v) ==
    CASE v.t = "str" -> v.s # <<>>
      [] v.t = "list" -> v.l # <<>>
      [] v.t = "int" -> TRUE
      [] OTHER -> FALSE

\* dict.get(key, default)
Get(v, default) == IF v.t = "absent" THEN default ELSE v

\* a split that never cuts
SplitWhole(s) == <<s>>

\* str.split(','): the pieces between the commas, nothing trimmed
RECURSIVE Split(_)
Split(s) ==
    IF \A i \in 1..Len(s) : s[i] # ","
    THEN <<s>>
    ELSE LET i == CHOOSE k \in 1..Len(s) :
                      s[k] = "," /\ \A j \in 1..(k - 1) : s[j] # ","
         IN <<SubSeq(s, 1, i - 1)>> \o Split(SubSeq(s, i + 1, Len(s)))

(***************************************************************************)
(* The store: a collection of documents.                                   *)
(***************************************************************************)
NoStamp == 0 - 1     \* the field last_updated is not in the document

BlankDoc(url) ==
    [url |-> url, title |-> "", published_date |-> 0, created_at |-> 0,
     tags |-> <<>>, language |-> "", content |-> PyNone, keywords |-> PyNone,
     last_updated |-> NoStamp]

\* $set
Merge(doc, upd) ==
    [f \in DOMAIN doc |-> IF f \in DOMAIN upd THEN upd[f] ELSE doc[f]]

\* find_one({'url': url}): the position of the first match, 0 for None
FindOne(st, url) ==
    IF \E i \in 1..Len(st) : st[i].url = url
    THEN CHOOSE i \in 1..Len(st) :
             st[i].url = url /\ \A j \in 1..(i - 1) : st[j].url # url
    ELSE 0

\* a write that replaces the whole document, and inserts when none matches
UpdateOneReplace(st, url, upd, upsert) ==
    IF \E i \in 1..Len(st) : st[i].url = url
    THEN [i \in 1..Len(st) |->
             IF st[i].url = url THEN Merge(BlankDoc(url), upd) ELSE st[i]]
    ELSE Append(st, Merge(BlankDoc(url), upd))

\* update_one({'url': url}, {'$set': upd}, upsert)
UpdateOne(st, url, upd, upsert) ==
    LET i == FindOne(st, url)
    IN IF i # 0 THEN [st EXCEPT ![i] = Merge(st[i], upd)]
       ELSE IF upsert THEN Append(st, Merge(BlankDoc(url), upd))
       ELSE st

Urls(st) == {st[i].url : i \in 1..Len(st)}

(***************************************************************************)
(* ListPageExtractor.py / DetailPageExtractor.py                           *)
(***************************************************************************)
\* The stubs a listing page can yield (TechFinancingNews records).  post_time
\* 0 stands for a text that is not a %Y-%m-%d date, 1 and 2 for two days;
\* the clock starts after them.
StubPool ==
    { [title |-> "t1", tag |-> "ai", further_url |-> "u1", post_time |-> 1],
      [title |-> "t2", tag |-> "",   further_url |-> "u2", post_time |-> 2],
      [title |-> "t3", tag |-> "vc", further_url |-> "u1", post_time |-> 0],
      [title |-> "t4", tag |-> "ai", further_url |-> "",   post_time |-> 2] }

StubLists == UNION {[1..k -> StubPool] : k \in 0..MaxList}

\* What crawler.arun gives for the source URL: an exception, no extracted
\* content, content that is not JSON, or a list of stubs.
Listings ==
    [kind : {"crawl_error", "no_content", "bad_json"}, items : {<<>>}]
        \cup [kind : {"ok"}, items : StubLists]

\* The payload json.loads gives extract_detail_content.
NoDetail == [shape |-> "none", summary |-> PyAbsent, key_words |-> PyAbsent]

Payloads ==
    [shape : {"int", "empty_list", "dict", "str_list"},
     summary : {PyAbsent}, key_words : {PyAbsent}]
        \cup
    { [shape |-> "records", summary |-> PyStr(<<"s">>),
       key_words |-> PyStr(<<"a", ",", " ", "b", ",", " ", "c">>)],
      [shape |-> "records", summary |-> PyStr(<<"s">>),
       key_words |-> PyStr(<<>>)],
      [shape |-> "records", summary |-> PyStr(<<>>),
       key_words |-> PyList(<<<<"a">>>>)],
      [shape |-> "records", summary |-> PyAbsent,
       key_words |-> PyStr(<<"a">>)],
      [shape |-> "records", summary |-> PyStr(<<"s">>),
       key_words |-> PyInt],
      [shape |-> "records", summary |-> PyStr(<<"s">>),
       key_words |-> PyAbsent] }

\* What the crawling/LLM collaborator does in one arun call of the detail
\* extractor.
CrawlOutcomes ==
    [kind : {"rate_limit", "crawl_error", "result_none", "content_none",
             "bad_json"}, payload : {NoDetail}]
        \cup [kind : {"json"}, payload : Payloads]

\* bool(detail_content)
PayloadTruthy(p) == p.shape \in {"int", "dict", "str_list", "records"}

\* detail_content[0].get(...) works on a list whose first item is a dict
FirstIsRecord(p) == p.shape = "records"

\* lines 98-103
PublishedDate(post_time, t) == IF post_time = 0 THEN t ELSE post_time

\* _format_news_document leaving keywords None for a key_words that is
\* neither a string nor a list
FormatNewsDocumentKeepNone(news, detail, t) ==
    LET document ==
            [title |-> news.title, url |-> news.further_url,
             published_date |-> PublishedDate(news.post_time, t),
             created_at |-> t,
             tags |-> IF news.tag # "" THEN <<news.tag>> ELSE <<>>,
             language |-> "en", content |-> PyNone, keywords |-> PyNone]
        key_words == Get(detail.key_words, PyStr(<<>>))
        keywords ==
            CASE key_words.t = "str" ->
                     IF Truthy(key_words) THEN PyList(Split(key_words.s))
                     ELSE PyList(<<>>)
              [] key_words.t = "list" -> key_words
              [] OTHER -> PyNone
    IN IF ~PayloadTruthy(detail)
       THEN [raised |-> FALSE, doc |-> document]
       ELSE IF ~FirstIsRecord(detail)
       THEN [raised |-> TRUE, doc |-> document]
       ELSE [raised |-> FALSE,
             doc |-> Merge(document, [content |-> Get(detail.summary, PyNone),
                                      keywords |-> keywords])]

\* _format_news_document(news_data, detail_content) at time t:
\* raised is TRUE when detail_content[0].get raises.
FormatNewsDocument(news, detail, t) ==
    LET document ==
            [title |-> news.title, url |-> news.further_url,
             published_date |-> PublishedDate(news.post_time, t),
             created_at |-> t,
             tags |-> IF news.tag # "" THEN <<news.tag>> ELSE <<>>,
             language |-> "en", content |-> PyNone, keywords |-> PyNone]
        key_words == Get(detail.key_words, PyStr(<<>>))
        keywords ==
            CASE key_words.t = "str" ->
                     IF Truthy(key_words) THEN PyList(Split(key_words.s))
                     ELSE PyList(<<>>)
              [] key_words.t = "list" -> key_words
              [] OTHER -> PyList(<<>>)
    IN IF ~PayloadTruthy(detail)
       THEN [raised |-> FALSE, doc |-> document]
       ELSE IF ~FirstIsRecord(detail)
       THEN [raised |-> TRUE, doc |-> document]
       ELSE [raised |-> FALSE,
             doc |-> Merge(document, [content |-> Get(detail.summary, PyNone),
                                      keywords |-> keywords])]

\* The body of the try block of extract_detail_content (lines 85-120):
\* the exception it ends with ("none": it returned), and the value.
DetailTryBody(c) ==
    CASE c.kind = "rate_limit" ->
             [raised |-> "RateLimitError", isNone |-> TRUE, payload |-> NoDetail]
      [] c.kind = "crawl_error" ->
             [raised |-> "Exception", isNone |-> TRUE, payload |-> NoDetail]
      [] c.kind \in {"result_none", "content_none", "bad_json"} ->
             [raised |-> "none", isNone |-> TRUE, payload |-> NoDetail]
      [] c.payload.shape = "int" ->      \* len(detail_content): TypeError
             [raised |-> "Exception", isNone |-> TRUE, payload |-> NoDetail]
      [] OTHER ->
             [raised |-> "none", isNone |-> FALSE, payload |-> c.payload]

\* extract_detail_content with its exceptions let through
ExtractDetailContentNoCatch(url, c) ==
    IF url = ""
    THEN [raised |-> "none", isNone |-> TRUE, payload |-> NoDetail, calls |-> 0]
    ELSE [raised |-> DetailTryBody(c).raised, isNone |-> DetailTryBody(c).isNone,
          payload |-> DetailTryBody(c).payload, calls |-> 1]

\* extract_detail_content(url) when the collaborator does c: `except
\* Exception` turns every exception of the body into None.
ExtractDetailContent(url, c) ==
    IF url = ""
    THEN [raised |-> "none", isNone |-> TRUE, payload |-> NoDetail, calls |-> 0]
    ELSE LET b == DetailTryBody(c)
         IN IF b.raised # "none"
            THEN [raised |-> "none", isNone |-> TRUE, payload |-> NoDetail,
                  calls |-> 1]
            ELSE [raised |-> "none", isNone |-> b.isNone,
                  payload |-> b.payload, calls |-> 1]

\* The store step of extract_news_list with no existence check and a plain
\* insert
StoreStubInsertAlways(st, news, t) ==
    Append(st, Merge(BlankDoc(news.further_url),
                     FormatNewsDocument(news, NoDetail, t).doc))

\* The store step of extract_news_list with no existence check: the upsert
\* always happens
StoreStubUpsertAlways(st, news, t) ==
    UpdateOne(st, news.further_url,
              FormatNewsDocument(news, NoDetail, t).doc, TRUE)

\* Lines 197-209: the store step of extract_news_list for one stub
StoreStub(st, news, t) ==
    IF FindOne(st, news.further_url) # 0
    THEN st
    ELSE UpdateOne(st, news.further_url,
                   FormatNewsDocument(news, NoDetail, t).doc, TRUE)

\* Lines 195-209: the for loop over news_data
RECURSIVE StoreAll(_, _, _)
StoreAll(st, items, t) ==
    IF items = <<>> THEN st
    ELSE StoreAll(StoreStub(st, Head(items), t), Tail(items), t)

\* `import litellm` and `import time` are not among the imports of
\* ListPageExtractor.py: naming either raises NameError.
LitellmImported == FALSE
TimeImported == FALSE

\* the gate of extract_detailPage (line 226)
IsComplete(st, url) ==
    LET i == FindOne(st, url)
    IN i # 0 /\ Truthy(st[i].keywords) /\ Truthy(st[i].content)

NoLast ==
    [op |-> "none", url |-> "", existed |-> FALSE, content |-> PyNone,
     keywords |-> PyNone, kind |-> "none", shape |-> "none", slept |-> 0,
     at |-> 0, key_words |-> PyAbsent]

NoCall ==
    [op |-> "none", url |-> "", kind |-> "none", raised |-> "none",
     isNone |-> TRUE, calls |-> 0]

Before(st, url) ==
    LET i == FindOne(st, url)
    IN [existed |-> i # 0,
        content |-> IF i # 0 THEN st[i].content ELSE PyNone,
        keywords |-> IF i # 0 THEN st[i].keywords ELSE PyNone]

IngestInit ==
    /\ store = <<>>
    /\ listing \in Listings
    /\ pc = "idle"
    /\ news_data = <<>>
    /\ idx = 1
    /\ runs = 0
    /\ now = 2
    /\ last = NoLast
    /\ xcall = NoCall

\* no send_single_email call is running
NoSingle ==
    [active |-> FALSE, caller |-> "none", n |-> 0, attempt |-> 0,
     attempts |-> 0, failures |-> 0, sleeps |-> 0, slept |-> 0,
     result |-> "none"]

\* process_and_send_news did not start; no translation request was made
NoTrace == [steps |-> <<>>, answer |-> [kind |-> "none", text |-> <<>>]]

AllSet ==
    [zhipuai_api_key |-> TRUE, EMAIL_USER_WY |-> TRUE,
     EMAIL_PASSWORD_WY |-> TRUE]

IngestIdle ==
    /\ listing = [kind |-> "no_content", items |-> <<>>]
    /\ pc = "idle"
    /\ news_data = <<>>
    /\ idx = 1
    /\ runs = 0
    /\ now = 2
    /\ last = NoLast
    /\ xcall = NoCall

EmailIdle ==
    /\ env = AllSet
    /\ recipients = <<>>
    /\ epc = "idle"
    /\ digest = <<>>
    /\ tieOrder = "natural"
    /\ sendIdx = 1
    /\ success_count = 0
    /\ failed_recipients = <<>>
    /\ attempted = <<>>
    /\ single = NoSingle
    /\ sendResult = "none"
    /\ opResult = "none"
    /\ trace = NoTrace

\* no TaskScheduler object yet
NoCli ==
    [cmd |-> "none", status |-> "none", config |-> <<>>, before |-> <<>>,
     kind |-> "none", times |-> <<>>, jobs |-> <<>>]

NoFire ==
    [pid |-> 0, job |-> 0, kind |-> "none", at |-> "none", script |-> "none",
     listed |-> TRUE, onTime |-> TRUE, waited |-> FALSE, outcome |-> "none"]

SchedIdle ==
    /\ cfgFile = <<>>
    /\ pidFile = 0
    /\ cli = NoCli
    /\ daemons = <<>>
    /\ clock = 1
    /\ lastFire = NoFire
    /\ sets = 0

\* extract_news_list() (lines 136-216), then extract_detailPage starts
ExtractNewsList ==
    /\ pc \in {"idle", "done", "aborted"}
    /\ runs < MaxRuns
    /\ LET t == now + 1
           items == IF listing.kind = "ok" THEN listing.items ELSE <<>>
       IN /\ now' = t
          /\ store' = StoreAll(store, items, t)
          /\ news_data' = items
    /\ runs' = runs + 1
    /\ idx' = 1
    /\ pc' = "detail"
    /\ last' = NoLast
    /\ UNCHANGED <<listing, xcall, emailVars, schedVars>>

\* one iteration of extract_detailPage: further_url empty (lines 220-222)
DetailSkipEmptyUrl ==
    /\ pc = "detail" /\ idx <= Len(news_data)
    /\ news_data[idx].further_url = ""
    /\ idx' = idx + 1
    /\ last' = [NoLast EXCEPT !.op = "empty_url", !.at = idx]
    /\ UNCHANGED <<store, listing, pc, news_data, runs, now, xcall,
                   emailVars, schedVars>>

\* one iteration: the document is complete (lines 225-228)
DetailSkipComplete ==
    /\ pc = "detail" /\ idx <= Len(news_data)
    /\ LET url == news_data[idx].further_url
           b == Before(store, url)
       IN /\ url # ""
          /\ IsComplete(store, url)
          /\ last' = [op |-> "skip", url |-> url, existed |-> b.existed,
                      content |-> b.content, keywords |-> b.keywords,
                      kind |-> "none", shape |-> "none", slept |-> 0,
                      at |-> idx, key_words |-> PyAbsent]
    /\ idx' = idx + 1
    /\ UNCHANGED <<store, listing, pc, news_data, runs, now, xcall,
                   emailVars, schedVars>>

\* one iteration: the extractor is called (lines 230-263).  An exception that
\* leaves extract_detail_content reaches `except litellm.RateLimitError`.
DetailAttempt ==
    /\ pc = "detail" /\ idx <= Len(news_data)
    /\ LET news_block == news_data[idx]
           url == news_block.further_url
           b == Before(store, url)
       IN /\ url # ""
          /\ ~IsComplete(store, url)
          /\ \E c \in CrawlOutcomes :
               LET r == ExtractDetailContent(url, c)
                   f == FormatNewsDocument(news_block, r.payload, now)
                   retry == /\ r.raised = "RateLimitError"
                            /\ LitellmImported /\ TimeImported
                   abort == \/ r.raised # "none" /\ ~retry
                            \/ r.raised = "none" /\ ~r.isNone /\ f.raised
               IN /\ xcall' = [op |-> "called", url |-> url, kind |-> c.kind,
                               raised |-> r.raised, isNone |-> r.isNone,
                               calls |-> r.calls]
                  /\ last' = [op |-> "attempt", url |-> url,
                              existed |-> b.existed, content |-> b.content,
                              keywords |-> b.keywords, kind |-> c.kind,
                              shape |-> c.payload.shape,
                              slept |-> IF retry THEN 30 ELSE 0,
                              at |-> idx, key_words |-> c.payload.key_words]
                  /\ pc' = IF abort THEN "aborted" ELSE pc
                  /\ idx' = IF abort \/ retry THEN idx ELSE idx + 1
                  /\ store' = IF abort \/ retry \/ r.isNone THEN store
                              ELSE UpdateOne(store, url,
                                             [content |-> f.doc.content,
                                              keywords |-> f.doc.keywords,
                                              last_updated |-> now], FALSE)
    /\ UNCHANGED <<listing, news_data, runs, now, emailVars, schedVars>>

\* the for loop of extract_detailPage is over
DetailDone ==
    /\ pc = "detail" /\ idx > Len(news_data)
    /\ pc' = "done"
    /\ UNCHANGED <<store, listing, news_data, idx, runs, now, last, xcall,
                   emailVars, schedVars>>

\* extract_detailPage(news_data) called with a stub that extract_news_list
\* did not store (lines 218-219): the store holds no document for it
CallExtractDetailPage ==
    /\ pc = "idle" /\ runs = 0
    /\ news_data' \in {<<stub>> : stub \in StubPool}
    /\ idx' = 1
    /\ pc' = "detail"
    /\ last' = NoLast
    /\ UNCHANGED <<store, listing, runs, now, xcall, emailVars, schedVars>>

\* a direct call of extract_detail_content (DetailPageExtractor.main)
CallExtractDetailContent ==
    /\ pc = "idle"
    /\ \E url \in {"", "u1"}, c \in CrawlOutcomes :
         LET r == ExtractDetailContent(url, c)
         IN xcall' = [op |-> "called", url |-> url, kind |-> c.kind,
                      raised |-> r.raised, isNone |-> r.isNone,
                      calls |-> r.calls]
    /\ UNCHANGED <<store, listing, pc, news_data, idx, runs, now, last,
                   emailVars, schedVars>>

Next ==
    \/ ExtractNewsList
    \/ DetailSkipEmptyUrl
    \/ DetailSkipComplete
    \/ DetailAttempt
    \/ DetailDone
    \/ CallExtractDetailPage
    \/ CallExtractDetailContent

Init == IngestInit /\ EmailIdle /\ SchedIdle

Spec == Init /\ [][Next]_vars

(***************************************************************************)
(* Properties of the ingestion pipeline, checked under Spec.               *)
(***************************************************************************)
\* "non-null content and a non-empty keywords list", of the document an
\* iteration of extract_detailPage found
StoredComplete(b) ==
    /\ b.existed
    /\ b.content.t # "none"
    /\ b.keywords.t = "list" /\ b.keywords.l # <<>>

\* a detail extraction that failed for a reason other than rate limiting:
\* the extractor gave None, or a payload that is no non-empty list of records
OtherFailure(b) ==
    \/ b.kind \in {"crawl_error", "result_none", "content_none", "bad_json"}
    \/ b.kind = "json" /\ b.shape # "records"

\* C1: for every stub with a non-empty further_url, the detail extractor is
\* not invoked if and only if the stored document exists with non-null
\* content and a non-empty keywords list.
C1_CompletenessGate ==
    last.op \in {"skip", "attempt"} =>
        ((last.op = "skip") <=> StoredComplete(last))

\* C2: the store never holds two documents with one URL, and a run of
\* extract_news_list after the first one adds no document.
C2_ListingIdempotent ==
    /\ [](\A i, j \in 1..Len(store) : store[i].url = store[j].url => i = j)
    /\ [][runs >= 1 /\ runs' = runs + 1 =>
              Urls(store') = Urls(store) /\ Len(store') = Len(store)]_vars

\* C2 witness: a second run over a listing that names one URL twice
C2_Witness ==
    /\ runs = 2 /\ pc = "detail"
    /\ Len(news_data) = 2
    /\ news_data[1].further_url = news_data[2].further_url
    /\ Len(store) = 1

\* C7: after a rate-limit failure of the detail extraction, backfill sleeps
\* 30 seconds and stays on the same stub.
C7_RateLimitRetry ==
    (last.op = "attempt" /\ last.kind = "rate_limit") =>
        /\ last.slept = 30
        /\ pc = "detail"
        /\ idx = last.at

\* C8: after a failure other than rate limiting, content and keywords of the
\* stored document are as before, and the pass goes on with the next stub.
C8_OtherFailureLeavesDocument ==
    (last.op = "attempt" /\ OtherFailure(last)) =>
        /\ pc # "aborted"
        /\ idx = last.at + 1
        /\ Before(store, last.url).content = last.content
        /\ Before(store, last.url).keywords = last.keywords

\* C9: extract_detail_content never raises, calls the collaborator at most
\* once, and returns None for an empty url, a collaborator exception, a
\* missing result, missing extracted content and content that is not JSON.
C9_DetailExtractorFailureContract ==
    xcall.op = "called" =>
        /\ xcall.raised = "none"
        /\ xcall.calls <= 1
        /\ (xcall.url = "" \/ xcall.kind # "json") => xcall.isNone

\* C9 witness: a collaborator exception, answered with None after one call
C9_Witness ==
    /\ xcall.op = "called" /\ xcall.url # ""
    /\ xcall.kind \in {"rate_limit", "crawl_error"}
    /\ xcall.isNone /\ xcall.raised = "none" /\ xcall.calls = 1

(***************************************************************************)
(* EmailService.py                                                         *)
(***************************************************************************)
DigestLimit == 10
RetryDelay == 5
DefaultRetryCount == 1

Min(a, b) == IF a < b THEN a ELSE b

\* The documents the ingestion pipeline leaves in the store, by their
\* content and keywords: complete; a stub; content with an empty keywords
\* list; an empty summary with keywords; keywords and no summary.
DocKinds ==
    << [content |-> PyStr(<<"s">>), keywords |-> PyList(<<<<"a">>, <<" ", "b">>>>)],
       [content |-> PyNone, keywords |-> PyNone],
       [content |-> PyStr(<<"s">>), keywords |-> PyList(<<>>)],
       [content |-> PyStr(<<>>), keywords |-> PyList(<<<<"a">>>>)],
       [content |-> PyNone, keywords |-> PyList(<<<<"a">>>>)] >>

UrlNames ==
    <<"u1", "u2", "u3", "u4", "u5", "u6", "u7", "u8", "u9", "u10", "u11",
      "u12", "u13", "u14", "u15", "u16">>

\* A store of seed.n documents with distinct URLs: the i-th is published on
\* day (i * step) % mod + 1 (days are distinct when mod exceeds n and is
\* prime, and repeat otherwise) and is of kind 1 (mix 0), cycles through
\* the kinds (mix 1), or is of kind 1 but for a stub and an empty summary
\* (mix 2).
SeedDoc(seed, i) ==
    LET k == CASE seed.mix = 0 -> 1
               [] seed.mix = 1 -> (i % Len(DocKinds)) + 1
               [] OTHER -> IF i % 12 = 5 THEN 2
                           ELSE IF i % 12 = 2 THEN 4 ELSE 1
    IN Merge(BlankDoc(UrlNames[i]),
             [title |-> "t", language |-> "en", created_at |-> 20,
              published_date |-> ((i * seed.step) % seed.mod) + 1,
              content |-> DocKinds[k].content,
              keywords |-> DocKinds[k].keywords])

SeedStore(seed) == [i \in 1..seed.n |-> SeedDoc(seed, i)]

Seeds == [n : 0..MaxDocs, step : {1, 3}, mod : {5, 17}, mix : 0..2]

SmallSeeds == [n : {0, 3}, step : {1}, mod : {5}, mix : {1}]

Envs == [{"zhipuai_api_key", "EMAIL_USER_WY", "EMAIL_PASSWORD_WY"} -> BOOLEAN]

RecipientLists == UNION {[1..k -> {"r1", "r2"}] : k \in 0..MaxRecipients}

\* the query of get_latest_news_from_mongodb (lines 85-88)
MatchesQuery(d) == d.content # PyNone /\ d.keywords # PyList(<<>>)

\* d goes before e in the ascending order of published_date
GoesBeforeAsc(d, e, tie) ==
    \/ d.published_date < e.published_date
    \/ d.published_date = e.published_date /\ tie = "natural"

\* d goes before e in sort('published_date', -1); among equal dates the
\* store's order is natural or reversed
GoesBefore(d, e, tie) ==
    \/ d.published_date > e.published_date
    \/ d.published_date = e.published_date /\ tie = "natural"

RECURSIVE InsertSorted(_, _, _)
InsertSorted(q, d, tie) ==
    IF q = <<>> THEN <<d>>
    ELSE IF GoesBefore(d, Head(q), tie) THEN <<d>> \o q
    ELSE <<Head(q)>> \o InsertSorted(Tail(q), d, tie)

\* the documents of q that were stored first are inserted last
RECURSIVE SortByDate(_, _)
SortByDate(q, tie) ==
    IF q = <<>> THEN <<>>
    ELSE InsertSorted(SortByDate(Tail(q), tie), Head(q), tie)

\* .limit(10)
Limit(q) == SubSeq(q, 1, Min(DigestLimit, Len(q)))

\* lines 100-107
FormatNews(q) ==
    [i \in 1..Len(q) |->
        [title |-> q[i].title, summary |-> q[i].content,
         key_words |-> q[i].keywords, url |-> q[i].url]]

\* get_latest_news_from_mongodb()
GetLatestNews(st, tie) ==
    FormatNews(Limit(SortByDate(SelectSeq(st, MatchesQuery), tie)))

\* line 172: sleep before the next attempt
SleepsAfterEveryFailure(attempt, retry_count) == TRUE

SleepsAfter(attempt, retry_count) == attempt < retry_count - 1

\* send_email raising whenever a recipient failed
RaisesOnAnyFailure(count, failed) == failed # <<>>

\* line 214: send_email raises
AllFailed(count, failed) == count = 0

\* What the translation request gives: an exception of the client, or a
\* text.  A text is a sequence of symbols: "[" and "]", "o" for a JSON
\* object with the keys of a news item, "k" for a JSON object that lacks
\* one, "x" for anything else.
Answers ==
    {[kind |-> "api_error", text |-> <<>>]} \cup
    [kind : {"text"},
     text : { <<>>, <<"x">>, <<"[", "o", "]">>, <<"x", "[", "o", "]", "x">>,
              <<"[", "o">>, <<"o", "]">>, <<"]", "[">>, <<"[", "x", "]">>,
              <<"[", "k", "]">>, <<"[", "]">> }]

\* str.find(ch): the index from 0 of the first ch, -1 when there is none
Find(text, ch) ==
    IF \E i \in 1..Len(text) : text[i] = ch
    THEN (CHOOSE i \in 1..Len(text) :
              text[i] = ch /\ \A j \in 1..(i - 1) : text[j] # ch) - 1
    ELSE 0 - 1

\* str.rfind(ch): the index from 0 of the last ch, -1 when there is none
RFind(text, ch) ==
    IF \E i \in 1..Len(text) : text[i] = ch
    THEN (CHOOSE i \in 1..Len(text) :
              text[i] = ch /\ \A j \in (i + 1)..Len(text) : text[j] # ch) - 1
    ELSE 0 - 1

\* json.loads accepts the text as an array of objects
IsJsonArray(text) ==
    /\ Len(text) >= 2
    /\ text[1] = "[" /\ text[Len(text)] = "]"
    /\ \A i \in 2..(Len(text) - 1) : text[i] \in {"o", "k"}

\* translate2ZH answering a failed request or an unparseable text with the
\* untranslated input
Translate2ZHFallback(answer) ==
    [raised |-> FALSE, value |-> <<"[", "o", "]">>]

\* translate2ZH (lines 111-153) when the request gives answer: it raises, or
\* returns the parsed array
Translate2ZH(answer) ==
    IF answer.kind # "text"
    THEN [raised |-> TRUE, value |-> <<>>]
    ELSE LET start == Find(answer.text, "[")
             end == RFind(answer.text, "]") + 1
             clean_json == SubSeq(answer.text, start + 1, end)
         IN IF start >= 0 /\ end > 0
            THEN IF IsJsonArray(clean_json)
                 THEN [raised |-> FALSE, value |-> clean_json]
                 ELSE [raised |-> TRUE, value |-> <<>>]
            ELSE [raised |-> TRUE, value |-> <<>>]

\* generate_email_html (lines 252-292): article['title'] and the other keys
\* raise KeyError on an item that lacks them
GenerateEmailHtmlRaises(data) ==
    \E i \in 1..Len(data) : data[i] = "k"

\* entering send_single_email: range(0) gives no attempt and the call
\* returns None
EnterSingle(caller, retry_count) ==
    [NoSingle EXCEPT !.active = TRUE, !.caller = caller, !.n = retry_count,
                     !.result = IF retry_count = 0 THEN "None" ELSE "running"]

EmailInit ==
    /\ \/ /\ store \in {SeedStore(seed) : seed \in Seeds}
          /\ env = AllSet
          /\ recipients = <<"r1">>
       \/ /\ store \in {SeedStore(seed) : seed \in SmallSeeds}
          /\ env \in Envs
          /\ recipients \in RecipientLists
    /\ epc = "idle"
    /\ digest = <<>>
    /\ tieOrder = "natural"
    /\ sendIdx = 1
    /\ success_count = 0
    /\ failed_recipients = <<>>
    /\ attempted = <<>>
    /\ single = NoSingle
    /\ sendResult = "none"
    /\ opResult = "none"
    /\ trace = NoTrace

\* a call of send_single_email with a retry_count of the caller's choice
SingleStart ==
    /\ epc = "idle"
    /\ \E n \in 0..MaxRetry :
         /\ single' = EnterSingle("direct", n)
         /\ epc' = IF n = 0 THEN "ended" ELSE "single"
    /\ UNCHANGED <<store, env, recipients, trace, digest, tieOrder, sendIdx,
                   success_count, failed_recipients, attempted, sendResult,
                   opResult, ingestVars, schedVars>>

\* one iteration of the for loop of send_single_email (lines 163-176)
SingleAttempt ==
    /\ single.active /\ single.result = "running"
    /\ \E delivered \in BOOLEAN :
         single' =
            IF delivered
            THEN [single EXCEPT !.attempts = @ + 1, !.result = "True"]
            ELSE IF SleepsAfter(single.attempt, single.n)
            THEN [single EXCEPT !.attempts = @ + 1, !.failures = @ + 1,
                                !.sleeps = @ + 1, !.slept = @ + RetryDelay,
                                !.attempt = @ + 1,
                                !.result = IF single.attempt + 1 < single.n
                                           THEN "running" ELSE "None"]
            ELSE [single EXCEPT !.attempts = @ + 1, !.failures = @ + 1,
                                !.result = "False"]
    /\ epc' = IF single.caller = "direct" /\ single'.result # "running"
              THEN "ended" ELSE epc
    /\ UNCHANGED <<store, env, recipients, trace, digest, tieOrder, sendIdx,
                   success_count, failed_recipients, attempted, sendResult,
                   opResult, ingestVars, schedVars>>

\* main(): NewsEmailService(recipients) and the head of
\* process_and_send_news (lines 24, 36-42, 53-57)
StartDigest ==
    /\ epc = "idle"
    /\ IF ~env.zhipuai_api_key
       THEN epc' = "ended" /\ opResult' = "raised"
       ELSE IF recipients = <<>>
       THEN epc' = "ended" /\ opResult' = "False"
       ELSE epc' = "fetch" /\ opResult' = "none"
    /\ UNCHANGED <<store, env, recipients, trace, digest, tieOrder, sendIdx,
                   success_count, failed_recipients, attempted, single,
                   sendResult, ingestVars, schedVars>>

\* news_data = self.get_latest_news_from_mongodb(); the store may be
\* unreachable
Fetch ==
    /\ epc = "fetch"
    /\ \E up \in BOOLEAN, tie \in {"natural", "reversed"} :
         IF up
         THEN /\ tieOrder' = tie
              /\ digest' = GetLatestNews(store, tie)
              /\ epc' = "translate"
              /\ opResult' = opResult
              /\ trace' = [trace EXCEPT !.steps = Append(@, "fetch")]
         ELSE /\ epc' = "ended" /\ opResult' = "raised"
              /\ UNCHANGED <<digest, tieOrder, trace>>
    /\ UNCHANGED <<store, env, recipients, sendIdx, success_count,
                   failed_recipients, attempted, single, sendResult,
                   ingestVars, schedVars>>

\* translated_data = self.translate2ZH(news_data) (line 61)
Translate ==
    /\ epc = "translate"
    /\ \E answer \in Answers :
         LET r == Translate2ZH(answer)
         IN /\ trace' = [steps |-> IF r.raised THEN trace.steps
                                   ELSE Append(trace.steps, "translate"),
                         answer |-> answer]
            /\ IF r.raised
               THEN epc' = "ended" /\ opResult' = "raised"
               ELSE epc' = "render" /\ opResult' = opResult
    /\ UNCHANGED <<store, env, recipients, digest, tieOrder, sendIdx,
                   success_count, failed_recipients, attempted, single,
                   sendResult, ingestVars, schedVars>>

\* email_html = self.generate_email_html(translated_data) (line 62)
Render ==
    /\ epc = "render"
    /\ IF GenerateEmailHtmlRaises(Translate2ZH(trace.answer).value)
       THEN /\ epc' = "ended" /\ opResult' = "raised"
            /\ trace' = trace
       ELSE /\ epc' = "render_done" /\ opResult' = opResult
            /\ trace' = [trace EXCEPT !.steps = Append(@, "render")]
    /\ UNCHANGED <<store, env, recipients, digest, tieOrder, sendIdx,
                   success_count, failed_recipients, attempted, single,
                   sendResult, ingestVars, schedVars>>

\* the head of send_email (lines 183-191)
SendStart ==
    /\ epc = "render_done"
    /\ IF ~(env.EMAIL_USER_WY /\ env.EMAIL_PASSWORD_WY)
       THEN /\ epc' = "ended" /\ opResult' = "raised"
            /\ sendResult' = "raised_config"
            /\ trace' = trace
       ELSE /\ epc' = "send" /\ opResult' = opResult
            /\ sendResult' = "running"
            /\ trace' = [trace EXCEPT !.steps = Append(@, "send")]
    /\ sendIdx' = 1
    /\ success_count' = 0
    /\ failed_recipients' = <<>>
    /\ attempted' = <<>>
    /\ UNCHANGED <<store, env, recipients, digest, tieOrder, single,
                   ingestVars, schedVars>>

\* one recipient (lines 194-199, 204-206): the pause, then
\* send_single_email with the default retry_count, or an exception before
\* its loop
SendNext ==
    /\ epc = "send" /\ ~single.active
    /\ sendIdx <= Len(recipients)
    /\ attempted' = Append(attempted, recipients[sendIdx])
    /\ \E unexpected \in BOOLEAN :
         IF unexpected
         THEN /\ failed_recipients' =
                     Append(failed_recipients, recipients[sendIdx])
              /\ sendIdx' = sendIdx + 1
              /\ single' = single
         ELSE /\ single' = EnterSingle("send_email", DefaultRetryCount)
              /\ UNCHANGED <<failed_recipients, sendIdx>>
    /\ UNCHANGED <<store, env, recipients, trace, epc, digest, tieOrder,
                   success_count, sendResult, opResult, ingestVars, schedVars>>

\* lines 199-202: the result of send_single_email is counted
SendTally ==
    /\ epc = "send" /\ single.active /\ single.result # "running"
    /\ IF single.result = "True"
       THEN /\ success_count' = success_count + 1
            /\ failed_recipients' = failed_recipients
       ELSE /\ failed_recipients' =
                   Append(failed_recipients, recipients[sendIdx])
            /\ success_count' = success_count
    /\ sendIdx' = sendIdx + 1
    /\ single' = NoSingle
    /\ UNCHANGED <<store, env, recipients, trace, epc, digest, tieOrder, attempted,
                   sendResult, opResult, ingestVars, schedVars>>

\* the end of send_email (lines 208-217) and of process_and_send_news
\* (lines 65-74)
SendFinish ==
    /\ epc = "send" /\ ~single.active
    /\ sendIdx > Len(recipients)
    /\ IF AllFailed(success_count, failed_recipients)
       THEN sendResult' = "raised" /\ opResult' = "raised"
       ELSE sendResult' = "returned" /\ opResult' = "True"
    /\ epc' = "ended"
    /\ UNCHANGED <<store, env, recipients, trace, digest, tieOrder, sendIdx,
                   success_count, failed_recipients, attempted, single,
                   ingestVars, schedVars>>

EmailNext ==
    \/ SingleStart
    \/ SingleAttempt
    \/ StartDigest
    \/ Fetch
    \/ Translate
    \/ Render
    \/ SendStart
    \/ SendNext
    \/ SendTally
    \/ SendFinish

InitEmail == EmailInit /\ IngestIdle /\ SchedIdle

SpecEmail == InitEmail /\ [][EmailNext]_vars

(***************************************************************************)
(* Properties of the digest service, checked under SpecEmail.              *)
(***************************************************************************)
\* C3: a send_single_email call with retry_count n >= 1 returns True after
\* k failures, k < n, with k + 1 attempts and k sleeps of retry_delay;
\* returns False after n failures with n attempts and n - 1 sleeps; and
\* makes no attempt after a success.
C3_BoundedRetry ==
    /\ []((single.active /\ single.n >= 1) =>
            /\ single.result \in {"running", "True", "False"}
            /\ single.result = "running" =>
                 /\ single.failures < single.n
                 /\ single.attempts = single.failures
                 /\ single.sleeps = single.failures
            /\ single.result = "True" =>
                 /\ single.failures < single.n
                 /\ single.attempts = single.failures + 1
                 /\ single.sleeps = single.failures
                 /\ single.slept = single.failures * RetryDelay
            /\ single.result = "False" =>
                 /\ single.failures = single.n
                 /\ single.attempts = single.n
                 /\ single.sleeps = single.n - 1
                 /\ single.slept = (single.n - 1) * RetryDelay)
    /\ [][(single.caller = "direct" /\ single.result = "True") =>
              single' = single]_vars

\* C3 witness: retry_count 3, two failures, then success after two sleeps
C3_Witness ==
    /\ single.active /\ single.caller = "direct" /\ single.n = 3
    /\ single.failures = 2 /\ single.result = "True"
    /\ single.attempts = 3 /\ single.sleeps = 2

\* the digest was fetched
Fetched == epc \in {"translate", "render", "render_done", "send"}

\* "non-null content and non-empty keywords"
InFilter(d) ==
    d.content.t # "none" /\ d.keywords.t = "list" /\ d.keywords.l # <<>>

Selectable == {i \in 1..Len(store) : InFilter(store[i])}

DateOf(url) == store[FindOne(store, url)].published_date

\* the digest holds min(10, count) distinct documents of the filter, as
\* stored, and no document of the filter that it omits is more recent than
\* one it holds
DigestIsTopOfFilter ==
    /\ Len(digest) = Min(DigestLimit, Cardinality(Selectable))
    /\ \A k \in 1..Len(digest) :
         \E i \in Selectable :
            /\ store[i].url = digest[k].url
            /\ store[i].title = digest[k].title
            /\ store[i].content = digest[k].summary
            /\ store[i].keywords = digest[k].key_words
    /\ \A k, m \in 1..Len(digest) : digest[k].url = digest[m].url => k = m
    /\ \A i \in Selectable, k \in 1..Len(digest) :
         (\A m \in 1..Len(digest) : digest[m].url # store[i].url) =>
             store[i].published_date <= DateOf(digest[k].url)

\* C4 as stated: the digest is the top min(10, count) of the filter, in
\* strictly descending published_date order.
C4_StrictlyDescending ==
    Fetched =>
        /\ DigestIsTopOfFilter
        /\ \A k, m \in 1..Len(digest) :
             k < m => DateOf(digest[k].url) > DateOf(digest[m].url)

\* C4 amended: the digest is the top min(10, count) of the filter, in
\* non-increasing published_date order: no item is more recent than an item
\* before it (equal dates may be adjacent).
C4_DigestSelection ==
    Fetched =>
        /\ DigestIsTopOfFilter
        /\ \A k, m \in 1..Len(digest) :
             k < m => DateOf(digest[k].url) >= DateOf(digest[m].url)

\* C4 witness: more than 10 documents in the filter, one outside it, 10
\* selected, two of them with one date
C4_Witness ==
    /\ Fetched
    /\ Cardinality(Selectable) > DigestLimit
    /\ Cardinality(Selectable) < Len(store)
    /\ Len(digest) = DigestLimit
    /\ \E k \in 1..(Len(digest) - 1) :
         DateOf(digest[k].url) = DateOf(digest[k + 1].url)

\* C10: once send_email has gone through a non-empty recipient list, every
\* recipient was attempted, successes and failures add up to the number of
\* recipients, and send_email and process_and_send_news fail exactly when
\* every recipient failed.
C10_PartialDelivery ==
    sendResult \in {"returned", "raised"} =>
        /\ recipients # <<>>
        /\ attempted = recipients
        /\ success_count + Len(failed_recipients) = Len(recipients)
        /\ (sendResult = "raised") <=> (failed_recipients = recipients)
        /\ (opResult = "raised") <=> (failed_recipients = recipients)
        /\ success_count >= 1 => (sendResult = "returned" /\ opResult = "True")

\* C10 witness: the first recipient failed, the second was still attempted
\* and succeeded, and the operation succeeded
C10_Witness ==
    /\ sendResult = "returned" /\ opResult = "True"
    /\ Len(recipients) = 2
    /\ failed_recipients = <<recipients[1]>>
    /\ success_count = 1

(***************************************************************************)
(* scheduler.py                                                            *)
(***************************************************************************)
\* the default configuration of load_config (lines 52-57)
DefaultConfig ==
    [crawler_times |-> <<"08:00">>, email_times |-> <<"16:25">>,
     crawler_script |-> "ListPageExtractor.py",
     email_script |-> "EmailService.py"]

ConfigKeys ==
    <<"crawler_times", "email_times", "crawler_script", "email_script">>

\* json.dump(self.config): the object's members, in the dict's order
SaveConfig(config) == [i \in 1..Len(ConfigKeys) |-> <<ConfigKeys[i], config[ConfigKeys[i]]>>]

\* the member named key of a JSON object
JsonGet(file, key) ==
    file[CHOOSE i \in 1..Len(file) : file[i][1] = key][2]

\* json.load(f)
LoadConfig(file) ==
    [crawler_times |-> JsonGet(file, "crawler_times"),
     email_times |-> JsonGet(file, "email_times"),
     crawler_script |-> JsonGet(file, "crawler_script"),
     email_script |-> JsonGet(file, "email_script")]

\* the times of the day the clock goes through
DayTimes == <<"08:00", "09:00", "16:25">>

\* schedule's at() accepts HH:MM with an hour below 24
ValidTime(time_str) == \E i \in 1..Len(DayTimes) : DayTimes[i] = time_str

\* the lists of times set_times is called with
TimeLists == {<<"09:00">>, <<"09:00", "16:25">>, <<"09:00", "25:00">>}

\* for time_str in times: every().day.at(time_str).do(run_script, script);
\* at() raises on a text that is no time, and the jobs before it stay
RECURSIVE Register(_, _, _, _)
Register(jobs, kind, times, script) ==
    IF times = <<>> THEN [raised |-> FALSE, jobs |-> jobs]
    ELSE IF ~ValidTime(Head(times)) THEN [raised |-> TRUE, jobs |-> jobs]
    ELSE Register(Append(jobs, [kind |-> kind, at |-> Head(times),
                                script |-> script]),
                  kind, Tail(times), script)

\* setup_schedule without schedule.clear()
SetupScheduleNoClear(jobs, config) ==
    LET c == Register(jobs, "crawler", config.crawler_times,
                      config.crawler_script)
    IN IF c.raised THEN c
       ELSE Register(c.jobs, "email", config.email_times, config.email_script)

\* setup_schedule() (lines 105-124) of a process whose schedule holds jobs
SetupSchedule(jobs, config) ==
    LET c == Register(<<>>, "crawler", config.crawler_times,
                      config.crawler_script)
    IN IF c.raised THEN c
       ELSE Register(c.jobs, "email", config.email_times, config.email_script)

\* lines 161-164
SetTimesConfig(config, task_type, times) ==
    IF task_type = "crawler" THEN [config EXCEPT !.crawler_times = times]
    ELSE IF task_type = "email" THEN [config EXCEPT !.email_times = times]
    ELSE config

Range(q) == {q[i] : i \in 1..Len(q)}

\* the jobs of a daemon that come due when the clock shows t
DueAt(jobs, t) == {j \in 1..Len(jobs) : jobs[j].at = DayTimes[t]}

SetMin(S) == CHOOSE x \in S : \A y \in S : x <= y

SchedInit ==
    /\ cfgFile = <<>>
    /\ pidFile = 0
    /\ cli = NoCli
    /\ daemons = <<>>
    /\ clock = 1
    /\ lastFire = NoFire
    /\ sets = 0

\* TaskScheduler() (lines 13-42, 44-58) when the configuration file is
\* file: load_config writes the default configuration when there is none
Construct(file) ==
    IF file = <<>>
    THEN [config |-> DefaultConfig, file |-> SaveConfig(DefaultConfig)]
    ELSE [config |-> LoadConfig(file), file |-> file]

\* a new process that keeps its TaskScheduler object
NewProcess ==
    /\ cfgFile' = Construct(cfgFile).file
    /\ cli' = [NoCli EXCEPT !.cmd = "init", !.config = Construct(cfgFile).config]
    /\ UNCHANGED <<pidFile, daemons, clock, lastFire, sets, store,
                   ingestVars, emailVars>>

\* set_times(task_type, times) on the object (lines 159-170): the file is
\* written before setup_schedule, which may raise
SetTimes ==
    /\ cli.cmd \in {"init", "set_times", "load_config"}
    /\ sets < MaxSets
    /\ \E task_type \in {"crawler", "email"}, times \in TimeLists :
         LET config == SetTimesConfig(cli.config, task_type, times)
             r == SetupSchedule(cli.jobs, config)
         IN /\ cfgFile' = SaveConfig(config)
            /\ cli' = [cmd |-> "set_times",
                       status |-> IF r.raised THEN "raised" ELSE "ok",
                       config |-> config, before |-> cli.config,
                       kind |-> task_type, times |-> times, jobs |-> r.jobs]
    /\ sets' = sets + 1
    /\ UNCHANGED <<pidFile, daemons, clock, lastFire, store, ingestVars,
                   emailVars>>

\* load_config() on the object after set_times (lines 44-49)
Reload ==
    /\ cli.cmd = "set_times"
    /\ cli' = [cli EXCEPT !.cmd = "load_config",
                          !.config = LoadConfig(cfgFile)]
    /\ UNCHANGED <<cfgFile, pidFile, daemons, clock, lastFire, sets, store,
                   ingestVars, emailVars>>

InitSched == SchedInit /\ store = <<>> /\ IngestIdle /\ EmailIdle

NextConfig ==
    \/ NewProcess
    \/ SetTimes
    \/ Reload

SpecConfig == InitSched /\ [][NextConfig]_vars

\* the command lines that set times: sys.argv[1], sys.argv[2:]
SetTimeCommands ==
    { [task_type |-> "email", times |-> <<"09:00">>],
      [task_type |-> "crawler", times |-> <<"09:00", "25:00">>] }

\* `python scheduler.py set_crawler_time ...` / `set_email_time ...` (main,
\* lines 173, 185-194): a process that constructs the object, calls
\* set_times, which saves the file, and ends
SetTimesCommand ==
    /\ \E cmd \in SetTimeCommands :
         cfgFile' = SaveConfig(SetTimesConfig(Construct(cfgFile).config,
                                              cmd.task_type, cmd.times))
    /\ UNCHANGED <<pidFile, cli, daemons, clock, lastFire, sets, store,
                   ingestVars, emailVars>>

\* `python scheduler.py start` (main, lines 173, 181-182; start, lines
\* 136-144): the child runs run(), whose setup_schedule registers the jobs
\* of the configuration or raises; the parent writes the child's pid and
\* ends
Start ==
    /\ Len(daemons) < MaxDaemons
    /\ LET pid == Len(daemons) + 1
           r == SetupSchedule(<<>>, Construct(cfgFile).config)
       IN /\ daemons' = Append(daemons,
                 [pid |-> pid, jobs |-> IF r.raised THEN <<>> ELSE r.jobs,
                  due |-> {}, late |-> {}, active |-> {}, spans |-> 0,
                  state |-> IF r.raised THEN "crashed" ELSE "running"])
          /\ pidFile' = pid
    /\ cfgFile' = Construct(cfgFile).file
    /\ UNCHANGED <<cli, clock, lastFire, sets, store, ingestVars, emailVars>>

\* `python scheduler.py stop` (main, lines 173, 183-184; stop, lines
\* 146-157): no pid file, a pid that is no process any more (os.kill raises
\* and the file stays), or a running daemon, which ends with its schedule
Stop ==
    /\ IF pidFile = 0 \/ daemons[pidFile].state # "running"
       THEN UNCHANGED <<pidFile, daemons>>
       ELSE /\ daemons' = [daemons EXCEPT ![pidFile].state = "killed",
                                          ![pidFile].jobs = <<>>,
                                          ![pidFile].due = {},
                                          ![pidFile].late = {},
                                          ![pidFile].active = {},
                                          ![pidFile].spans = 0]
            /\ pidFile' = 0
    /\ cfgFile' = Construct(cfgFile).file
    /\ UNCHANGED <<cli, clock, lastFire, sets, store, ingestVars, emailVars>>

\* The clock reaches the next time of the day (watched while a daemon
\* runs).  A daemon whose loop is polling (lines 132-134) has run what was
\* due; a daemon that waits in subprocess.run finds the jobs of that time
\* pending only when the subprocess has ended, which it does before MaxSpan
\* further times of the day have passed.  The record of the latest job is
\* kept while that job executes.
Tick ==
    /\ \E d \in 1..Len(daemons) : daemons[d].state = "running"
    /\ \A d \in 1..Len(daemons) :
         IF daemons[d].active = {} THEN daemons[d].due = {}
         ELSE daemons[d].spans < MaxSpan
    /\ LET t == (clock % Len(DayTimes)) + 1
       IN /\ clock' = t
          /\ daemons' = [d \in 1..Len(daemons) |->
                 IF daemons[d].state = "running"
                 THEN LET new == DueAt(daemons[d].jobs, t) \ daemons[d].active
                      IN [daemons[d] EXCEPT
                             !.due = @ \cup new,
                             !.late = IF daemons[d].active # {}
                                      THEN daemons[d].due \cup new ELSE @,
                             !.spans = IF daemons[d].active # {}
                                       THEN @ + 1 ELSE @]
                 ELSE daemons[d]]
    /\ lastFire' = IF /\ lastFire.pid # 0
                       /\ lastFire.job \in daemons[lastFire.pid].active
                    THEN lastFire ELSE NoFire
    /\ UNCHANGED <<cfgFile, pidFile, cli, sets, store, ingestVars, emailVars>>

\* a job is started although another one of the daemon is executing
CanStartJobAsync(daemon) == TRUE

\* run_pending calls run_script, which waits in subprocess.run (lines
\* 83-87): the next job starts when no job of the daemon is executing
CanStartJob(daemon) == daemon.active = {}

\* run_script letting a failure of the subprocess or of its launch through
RunScriptRaisesOnFailure(outcome) == outcome # "exit_0"

\* run_script (lines 71-103): subprocess.run without check returns on a
\* non-zero exit, and `except Exception` takes what the launch raises
RunScriptRaises(outcome) == FALSE

\* run_pending() of a daemon starts a pending job, the one that has waited
\* first: run_script up to subprocess.run
DaemonRunJob ==
    /\ \E d \in 1..Len(daemons) :
         /\ daemons[d].state = "running"
         /\ daemons[d].due # {}
         /\ CanStartJob(daemons[d])
         /\ LET j == IF daemons[d].late # {} THEN SetMin(daemons[d].late)
                     ELSE SetMin(daemons[d].due)
                job == daemons[d].jobs[j]
                listed == IF job.kind = "crawler"
                          THEN LoadConfig(cfgFile).crawler_times
                          ELSE LoadConfig(cfgFile).email_times
            IN /\ daemons' = [daemons EXCEPT ![d].due = @ \ {j},
                                             ![d].late = @ \ {j},
                                             ![d].active = @ \cup {j}]
               /\ lastFire' = [pid |-> daemons[d].pid, job |-> j,
                               kind |-> job.kind,
                               at |-> job.at, script |-> job.script,
                               listed |-> job.at \in Range(listed),
                               onTime |-> job.at = DayTimes[clock],
                               waited |-> j \in daemons[d].late,
                               outcome |-> "executing"]
    /\ UNCHANGED <<cfgFile, pidFile, cli, clock, sets, store, ingestVars,
                   emailVars>>

\* the subprocess of a job ends, or its launch fails: the end of run_script
\* (lines 89-103), back in the loop of run()
DaemonJobEnds ==
    /\ \E d \in 1..Len(daemons) :
         /\ daemons[d].state = "running"
         /\ daemons[d].active # {}
         /\ \E j \in daemons[d].active,
               outcome \in {"exit_0", "exit_nonzero", "launch_error"} :
              /\ daemons' =
                    [daemons EXCEPT
                        ![d].active = @ \ {j},
                        ![d].spans = 0,
                        ![d].state = IF RunScriptRaises(outcome)
                                     THEN "crashed" ELSE "running"]
              /\ lastFire' = IF lastFire.pid = daemons[d].pid
                                  /\ lastFire.job = j
                             THEN [lastFire EXCEPT !.outcome = outcome]
                             ELSE lastFire
    /\ UNCHANGED <<cfgFile, pidFile, cli, clock, sets, store, ingestVars,
                   emailVars>>

SchedNext ==
    \/ SetTimesCommand
    \/ Start
    \/ Stop
    \/ Tick
    \/ DaemonRunJob
    \/ DaemonJobEnds

SpecSched == InitSched /\ [][SchedNext]_vars

(***************************************************************************)
(* Properties of the scheduler, checked under SpecConfig and SpecSched.    *)
(***************************************************************************)
\* one crawler job per entry of crawler_times, then one email job per entry
\* of email_times, and nothing else
JobsAreExactly(jobs, config) ==
    LET nc == Len(config.crawler_times)
        ne == Len(config.email_times)
    IN /\ Len(jobs) = nc + ne
       /\ \A i \in 1..nc :
            jobs[i] = [kind |-> "crawler", at |-> config.crawler_times[i],
                       script |-> config.crawler_script]
       /\ \A i \in 1..ne :
            jobs[nc + i] = [kind |-> "email", at |-> config.email_times[i],
                            script |-> config.email_script]

\* C5: after set_times(kind, T), also after a reload of the file, the list
\* of that kind is T and the other list and the two scripts are as before;
\* when set_times returned, the registered jobs are exactly one per entry of
\* the two lists.
C5_Reconfiguration ==
    cli.cmd \in {"set_times", "load_config"} =>
        LET file == LoadConfig(cfgFile)
        IN /\ cli.config = file
           /\ cli.kind = "crawler" =>
                /\ file.crawler_times = cli.times
                /\ file.email_times = cli.before.email_times
           /\ cli.kind = "email" =>
                /\ file.email_times = cli.times
                /\ file.crawler_times = cli.before.crawler_times
           /\ file.crawler_script = cli.before.crawler_script
           /\ file.email_script = cli.before.email_script
           /\ cli.status = "ok" => JobsAreExactly(cli.jobs, file)

\* C5 witness: set_times('crawler', ["09:00", "16:25"]) on a configuration
\* that was reconfigured before, then a reload
C5_Witness ==
    /\ cli.cmd = "load_config" /\ cli.status = "ok"
    /\ cli.kind = "crawler" /\ cli.times = <<"09:00", "16:25">>
    /\ cli.before.crawler_times = <<"09:00">>
    /\ cli.config.crawler_times = <<"09:00", "16:25">>
    /\ cli.config.email_times = <<"16:25">>
    /\ Len(cli.jobs) = 3

\* C6: a job a running daemon fires is due at a time that the configuration
\* file lists for that job when it fires.
C6_ReconfigurationReachesDaemon ==
    lastFire.pid # 0 => lastFire.listed

\* C14: `start` with no pid file forks a daemon that runs with one job per
\* configured time, and records its pid; a daemon is ended only by a `stop`
\* that signals the recorded pid and removes the pid file; while there is no
\* pid file no daemon is signalled.
C14_Lifecycle ==
    [][/\ (Len(daemons') > Len(daemons) /\ pidFile = 0) =>
            /\ pidFile' = Len(daemons')
            /\ daemons'[pidFile'].state = "running"
            /\ JobsAreExactly(daemons'[pidFile'].jobs,
                              Construct(cfgFile).config)
       /\ \A d \in 1..Len(daemons) :
            (daemons[d].state = "running" /\ daemons'[d].state = "killed") =>
                (pidFile = daemons[d].pid /\ pidFile' = 0)]_vars

\* C17: a daemon executes at most one job at a time; a job fires at its
\* configured time or after it waited for an executing job; when a job
\* ends, however it ends, the daemon keeps running with the same jobs and
\* the same pending jobs; a pending job stays pending until it is started;
\* and when its time comes every job of a running daemon is pending.
C17_JobFailureIsolation ==
    /\ [](\A d \in 1..Len(daemons) : Cardinality(daemons[d].active) <= 1)
    /\ [](lastFire.pid # 0 => (lastFire.onTime \/ lastFire.waited))
    /\ [][\A d \in 1..Len(daemons) :
            /\ (daemons[d].active # {} /\ daemons'[d].active = {}) =>
                 /\ daemons'[d].state \in {"running", "killed"}
                 /\ daemons'[d].state = "running" =>
                      /\ daemons'[d].jobs = daemons[d].jobs
                      /\ daemons'[d].due = daemons[d].due
            /\ \A j \in daemons[d].due :
                 \/ j \in daemons'[d].due
                 \/ j \in daemons'[d].active
                 \/ daemons'[d].state = "killed"
            /\ (clock' # clock /\ daemons'[d].state = "running") =>
                 \A j \in 1..Len(daemons[d].jobs) :
                    daemons[d].jobs[j].at = DayTimes[clock'] =>
                        j \in daemons'[d].due \cup daemons'[d].active]_vars

\* C17 witness: a job ended in failure while another job of the daemon had
\* come due; the daemon runs and that job is pending
C17_Witness ==
    /\ lastFire.pid # 0
    /\ lastFire.outcome \in {"exit_nonzero", "launch_error"}
    /\ daemons[lastFire.pid].state = "running"
    /\ daemons[lastFire.pid].active = {}
    /\ daemons[lastFire.pid].late # {}

\* C20: every running daemon is the one recorded in the pid file.
C20_DaemonTracking ==
    \A d \in 1..Len(daemons) :
        daemons[d].state = "running" => pidFile = daemons[d].pid

(***************************************************************************)
(* Further properties of the ingestion pipeline, checked under Spec.       *)
(***************************************************************************)
\* C12: a run of extract_news_list changes no document that is in the
\* store, and returns every stub of the listing, the ones whose URL was
\* stored before included.
C12_ListingKeepsExisting ==
    [][runs' = runs + 1 =>
         /\ Len(store') >= Len(store)
         /\ \A i \in 1..Len(store) : store'[i] = store[i]
         /\ listing.kind = "ok" =>
              /\ Len(news_data') = Len(listing.items)
              /\ \A k \in 1..Len(listing.items) :
                   listing.items[k].further_url \in Urls(store) =>
                       news_data'[k] = listing.items[k]]_vars

\* C12 witness: the second run returned a stub whose document the first pass
\* had filled in, and the document still has its content
C12_Witness ==
    /\ runs = 2 /\ pc = "detail" /\ idx = 1
    /\ Len(news_data) >= 1
    /\ \E i \in 1..Len(store) :
         /\ store[i].url = news_data[1].further_url
         /\ store[i].content = PyStr(<<"s">>)
         /\ store[i].keywords.t = "list"
         /\ store[i].last_updated # NoStamp
         /\ store[i].created_at < now

\* ','.join(pieces)
RECURSIVE Join(_)
Join(pieces) ==
    IF Len(pieces) = 1 THEN pieces[1]
    ELSE pieces[1] \o <<",">> \o Join(Tail(pieces))

\* C13: after an extraction that gave a detail record, the stored keywords
\* are a list: for a non-empty string the pieces between its commas,
\* untrimmed (joined by ',' they give the string back; "a, b, c" gives "a",
\* " b", " c"); a list as it is; the empty list otherwise.
C13_KeywordNormalization ==
    (last.op = "attempt" /\ last.shape = "records" /\ last.existed) =>
        LET k == Before(store, last.url).keywords
            w == last.key_words
        IN /\ k.t = "list"
           /\ (w.t = "str" /\ w.s # <<>>) =>
                /\ Len(k.l) >= 1
                /\ Join(k.l) = w.s
                /\ \A i \in 1..Len(k.l) :
                     \A j \in 1..Len(k.l[i]) : k.l[i][j] # ","
           /\ w = PyStr(<<"a", ",", " ", "b", ",", " ", "c">>) =>
                k.l = << <<"a">>, <<" ", "b">>, <<" ", "c">> >>
           /\ w.t = "list" => k = w
           /\ (w.t \notin {"str", "list"} \/ w = PyStr(<<>>)) =>
                k = PyList(<<>>)

\* C13 witness: "a, b, c" was stored as "a", " b", " c"
C13_Witness ==
    /\ last.op = "attempt" /\ last.existed
    /\ last.key_words = PyStr(<<"a", ",", " ", "b", ",", " ", "c">>)
    /\ Before(store, last.url).keywords =
           PyList(<< <<"a">>, <<" ", "b">>, <<" ", "c">> >>)

\* C15: an iteration of extract_detailPage that calls the extractor creates
\* no document, leaves every document of another URL as it is, and leaves
\* title, url, published_date, created_at, tags and language of the
\* document of its URL as they are.
C15_TargetedUpdate ==
    [][(last' # last /\ last'.op = "attempt") =>
         /\ Len(store') = Len(store)
         /\ \A i \in 1..Len(store) :
              IF store[i].url = last'.url
              THEN \A f \in {"title", "url", "published_date", "created_at",
                             "tags", "language"} : store'[i][f] = store[i][f]
              ELSE store'[i] = store[i]]_vars

\* C15 witness: a stub's document got content, keywords and last_updated,
\* next to another document
C15_Witness ==
    /\ last.op = "attempt" /\ last.shape = "records"
    /\ last.existed /\ last.content = PyNone
    /\ Len(store) = 2
    /\ LET d == store[FindOne(store, last.url)]
       IN /\ d.content = PyStr(<<"s">>)
          /\ d.keywords.t = "list" /\ d.keywords.l # <<>>
          /\ d.last_updated = now
          /\ d.title # "" /\ d.created_at = now

\* "non-null content and non-empty keywords", of a document
DocComplete(d) ==
    d.content.t # "none" /\ d.keywords.t = "list" /\ d.keywords.l # <<>>

\* C16: a document with non-null content and non-empty keywords keeps its
\* content and keywords in every step.
C16_CompleteStaysComplete ==
    [][\A i \in 1..Len(store) :
          DocComplete(store[i]) =>
              /\ i <= Len(store')
              /\ store'[i].content = store[i].content
              /\ store'[i].keywords = store[i].keywords]_vars

\* C19: a stored document whose keywords is null has null content, so a
\* document that the digest query matches has keywords that are not null.
C19_NullKeywordsNullContent ==
    \A i \in 1..Len(store) :
        /\ store[i].keywords = PyNone => store[i].content = PyNone
        /\ MatchesQuery(store[i]) => store[i].keywords.t = "list"

\* C19 witness: the backfill wrote null keywords (and null content) to one
\* document, and another document matches the digest query
C19_Witness ==
    \E i, j \in 1..Len(store) :
        /\ store[i].keywords = PyNone /\ store[i].last_updated # NoStamp
        /\ MatchesQuery(store[j])

(***************************************************************************)
(* Further properties of the digest service, checked under SpecEmail.      *)
(***************************************************************************)
\* C11: when a required secret is not set or the recipient list is empty,
\* process_and_send_news ends with an exception, and no recipient was
\* attempted.
C11_ConfigurationMissingIsFatal ==
    (/\ epc = "ended" /\ opResult # "none"
     /\ \/ recipients = <<>>
        \/ \E k \in DOMAIN env : ~env[k]) =>
        (opResult = "raised" /\ attempted = <<>>)

\* some part of the text is a JSON array
HasParseableArray(text) ==
    \E i, j \in 1..Len(text) : i <= j /\ IsJsonArray(SubSeq(text, i, j))

StepOrder == <<"fetch", "translate", "render", "send">>

\* C18: the steps that succeeded are fetch, translate, render, send, in that
\* order and each after the ones before it; a recipient is attempted only
\* when all four did; and when the translation request failed or its answer
\* holds no parseable JSON array, process_and_send_news ended with an
\* exception before rendering, and no recipient was attempted.
C18_AllOrNothing ==
    /\ Len(trace.steps) <= Len(StepOrder)
    /\ trace.steps = SubSeq(StepOrder, 1, Len(trace.steps))
    /\ attempted # <<>> => trace.steps = StepOrder
    /\ (/\ trace.answer.kind # "none"
        /\ ~(trace.answer.kind = "text"
             /\ HasParseableArray(trace.answer.text))) =>
          /\ trace.steps = <<"fetch">>
          /\ epc = "ended" /\ opResult = "raised"
          /\ attempted = <<>> /\ sendResult = "none"

\* C18 witness: news was fetched, the answer had brackets and no JSON array,
\* and the operation raised
C18_Witness ==
    /\ digest # <<>>
    /\ trace.answer = [kind |-> "text", text |-> <<"[", "x", "]">>]
    /\ trace.steps = <<"fetch">>
    /\ opResult = "raised" /\ attempted = <<>>
====
